---- MODULE Spec2Model ----
(***************************************************************************)
(* A model of ledfxcontroller/utils.py: the BaseRegistry name -> class     *)
(* catalogue, the composition of CONFIG_SCHEMA fragments along a class's   *)
(* method resolution order, and the RegistryLoader id -> object mapping    *)
(* with its auto-increment counter; the import of the loader's package;    *)
(* create taken statement by statement by two threads; and async_callback  *)
(* with the event loop that runs the scheduled call.                       *)
(*                                                                         *)
(* Python dicts are functions whose DOMAIN is the set of keys.  Python     *)
(* exceptions are the "result" of a call, recorded in the history          *)
(* variable last together with the call's arguments.                       *)
(***************************************************************************)
EXTENDS Integers, Sequences, FiniteSets, TLC

\* ------------------------------------------------------------------ bounds
\* an id-less create is only issued while _object_id <= MaxObjectId
MaxObjectId == 2

\* the calls of async_callback made
MaxCalls == 2

\* ------------------------------------------------------- dict primitives
EmptyDict == [k \in {} |-> k]

\* d[k] = v
Put(d, k, v) == [x \in (DOMAIN d) \cup {k} |-> IF x = k THEN v ELSE d[x]]

\* del d[k]
Del(d, k) == [x \in (DOMAIN d) \ {k} |-> d[x]]

\* -------------------------------------------------------------- classes
\* The component classes of one category.  Effect is the direct subclass of
\* BaseRegistry whose definition creates the category's _registry dict.
Classes == {"Effect", "Rainbow", "RainbowAlt", "Gradient"}

\* classes above the category: they never carry a CONFIG_SCHEMA attribute
FrameworkClasses == {"BaseRegistry", "ABC", "object", "ABCMeta", "type"}

\* the class handed to the RegistryLoader as cls; its definition made _registry
CategoryBase == "Effect"

\* cls.__module__, as its dotted segments
Module(c) ==
  CASE c = "Effect"     -> <<"ledfx", "effects">>
    [] c = "Rainbow"    -> <<"ledfx", "effects", "rainbow">>
    [] c = "RainbowAlt" -> <<"custom", "rainbow">>
    [] c = "Gradient"   -> <<"ledfx", "effects", "gradient">>

\* the single base class of each class (the hierarchies modelled are
\* chains: every class has one base, so its MRO is the chain of its bases)
Parent(c) ==
  CASE c = "Effect"       -> "BaseRegistry"
    [] c = "Rainbow"      -> "Effect"
    [] c = "RainbowAlt"   -> "Rainbow"
    [] c = "Gradient"     -> "Effect"
    [] c = "BaseRegistry" -> "ABC"
    [] c = "ABC"          -> "object"
    [] c = "ABCMeta"      -> "type"
    [] c = "type"         -> "object"

\* type(cls): every class below ABC has the metaclass ABCMeta
TypeOfClass(c) == IF c \in {"ABCMeta", "type", "object"} THEN "type" ELSE "ABCMeta"

\* name = cls.__module__.split('.')[-1]
RegistryName(c) == Module(c)[Len(Module(c))]

\* the names create() is called with; the last one is never a module name
Names == {"effects", "rainbow", "does_not_exist"}

\* inspect.getmro(cls): the class, then its bases up to object
RECURSIVE getmro(_)
getmro(c) == IF c = "object" THEN <<c>> ELSE <<c>> \o getmro(Parent(c))

\* mutant: the MRO taken leaf first, as getmro returns it
Reversed_NotReversed(seq) == seq

\* seq[::-1]
Reversed(seq) == [i \in 1..Len(seq) |-> seq[Len(seq) + 1 - i]]

\* ------------------------------------------------------ schema fragments
Fields == {"a", "b"}

IntValues == {"1", "2"}
StrValues == {"s"}

\* isinstance check of the int / str validators
TypeOf(v) == IF v \in IntValues THEN "int" ELSE "str"

\* marker without a default
NoDefault == "UNDEFINED"

Optional(typ, def) == [kind |-> "Optional", typ |-> typ, def |-> def]
Required(typ) == [kind |-> "Required", typ |-> typ, def |-> NoDefault]

\* Python None and a vol.Schema value (its field dict and its extra-key
\* policy), as values of one shape
None == [isNone |-> TRUE, schema |-> EmptyDict, extra |-> "-"]
Schema(m, extra) == [isNone |-> FALSE, schema |-> m, extra |-> extra]

\* vol.Schema({...}) as written in a class body: extra keys are prevented
SchemaVal(m) == Schema(m, "PREVENT_EXTRA")

\* the CONFIG_SCHEMA fragments a class body may declare
FragA1 == [f \in {"a"} |-> Optional("int", "1")]
FragA2 == [f \in {"a"} |-> Optional("int", "2")]
FragB == [f \in {"b"} |-> Required("str")]
FragAB == [f \in {"a", "b"} |-> IF f = "a" THEN Required("int") ELSE Optional("str", "s")]
Fragments == {EmptyDict, FragA1, FragA2, FragB, FragAB}

\* A class body either sets CONFIG_SCHEMA (a one-element sequence) or does
\* not (the empty sequence).
Declarations == {<<>>} \cup {<<SchemaVal(m)>> : m \in Fragments}

\* the declarations of the running application's classes
AppDeclarations ==
  [c \in Classes |->
     CASE c = "Effect"     -> <<SchemaVal(FragA1)>>
       [] c = "Rainbow"    -> <<SchemaVal(FragA2)>>
       [] c = "RainbowAlt" -> <<SchemaVal(FragB)>>
       [] c = "Gradient"   -> <<>>]

\* the config argument of create: None, or a dict
NoConfig == [isNone |-> TRUE, value |-> EmptyDict]
Config(d) == [isNone |-> FALSE, value |-> d]
ConfigDicts == {EmptyDict, [f \in {"a"} |-> "s"]}
Configs == {NoConfig} \cup {Config(d) : d \in ConfigDicts}

\* the extra positional arguments of create (*args): none, or one object
\* of the application
NoExtraArgs == <<>>
AppObject == [app |-> "ledfx"]
ExtraArgs == {NoExtraArgs, <<AppObject>>}

\* the id argument of create when it is omitted (id = None)
NoId == 0
\* the ids callers supply to create
ExplicitIds == {1, 2}
\* the ids destroy is called with: the explicit and the auto-assigned ones
AllIds == ExplicitIds \cup (1..MaxObjectId)

\* the package the loaders are constructed with, and the modules
\* pkgutil.iter_modules can find in it, in the sorted order it yields them
Package == <<"ledfx", "effects">>
PackageModules == <<Package \o <<"gradient">>, Package \o <<"rainbow">>>>

\* what discover_modules finds at one call: the module files present then
FoundLists ==
  {<<>>, <<PackageModules[1]>>, <<PackageModules[2]>>, PackageModules}

\* the classes a module's body declares, in order
ModuleBody(mod) ==
  IF mod = PackageModules[1] THEN <<"Gradient">>
  ELSE IF mod = PackageModules[2] THEN <<"Rainbow">>
  ELSE <<>>

\* where a call of import_registry fails: nowhere, in discover_modules, or in
\* the import of the k-th module found (k >= 1)
NoFailure == -1
DiscoveryFails == 0

\* the threads that call create on the loader they share
Threads == {"T1", "T2"}
SharedLoader == "L1"

\* the RegistryLoader objects of the application
LoaderIds == {"L1", "L2"}

VARIABLES
  CONFIG_SCHEMA,  \* class -> the CONFIG_SCHEMA its own body declares, if any
  defined,        \* the component classes whose class statement has run
  registry,       \* BaseRegistry._registry of the category: name -> class
  loaders,        \* the RegistryLoader objects constructed
  objects,        \* loader -> RegistryLoader._objects: id -> object
  object_id,      \* loader -> RegistryLoader._object_id
  destroyed,      \* history: loader -> ids removed by destroy so far
  autoIds,        \* history: loader -> ids taken from _object_id, in order
  stored,         \* history: loader -> id -> the object the successful create
                  \*   of the live id returned, and the id argument it was given
  imported,       \* sys.modules: the modules of the package already imported
  threads,        \* thread -> where it is inside create, and its locals
  lock,           \* the callers' mutex around create: its holder, "free", or
                  \*   "unused" when the callers have none
  future,         \* the futures async_callback has returned, in order
  loop,           \* the event loop: its queue of scheduled run_callback
                  \*   handles and where it is inside the one it is running
  last            \* history: the last call, its arguments and its result

vars == <<CONFIG_SCHEMA, defined, registry, loaders, objects, object_id,
          destroyed, autoIds, stored, imported, threads, lock, future, loop,
          last>>

\* the state that registering, creating, destroying and schema() leave alone
asyncVars == <<future, loop>>
runtimeVars == <<imported, threads, lock, future, loop>>

\* -------------------------------------------------- reflection helpers
\* getattr(cls, 'CONFIG_SCHEMA'): the declaration nearest in the MRO, as a
\* one-element sequence; the empty sequence stands for AttributeError
RECURSIVE GetAttr(_)
GetAttr(c) ==
  IF c \in FrameworkClasses THEN <<>>
  ELSE IF CONFIG_SCHEMA[c] # <<>> THEN CONFIG_SCHEMA[c]
  ELSE GetAttr(Parent(c))

\* getattr(super(cls, cls), 'CONFIG_SCHEMA', None)
SuperGetAttr(c) ==
  IF c = "object" THEN None
  ELSE IF GetAttr(Parent(c)) = <<>> THEN None
  ELSE GetAttr(Parent(c))[1]

\* x != y on attribute values: two schemas differ when their field dicts
\* (keys, markers, defaults, validators) or their extra policies differ
NotEqual(x, y) == x # y

\* getattr raising AttributeError makes the result False
hasattr_explicit(c) ==
  IF GetAttr(c) = <<>> THEN FALSE
  ELSE NotEqual(GetAttr(c)[1], SuperGetAttr(c))

\* getattr_explicit(cls, 'CONFIG_SCHEMA', default)
getattr_explicit(c, default) ==
  IF hasattr_explicit(c) THEN GetAttr(c)[1] ELSE default

\* ---------------------------------------------------- schema composition
\* vol.Schema.extend: the fields of t are added to, or replace, those of s
Extend(s, t) ==
  [f \in (DOMAIN s) \cup (DOMAIN t) |-> IF f \in DOMAIN t THEN t[f] ELSE s[f]]

\* the loop of schema(): classes[i..] merged into acc
RECURSIVE SchemaLoop(_, _, _)
SchemaLoop(classes, i, acc) ==
  IF i > Len(classes) THEN acc
  ELSE LET c_schema == getattr_explicit(classes[i], None)
       IN IF ~c_schema.isNone
          THEN SchemaLoop(classes, i + 1, Extend(acc, c_schema.schema))
          ELSE SchemaLoop(classes, i + 1, acc)

\* BaseRegistry.schema(extended, extra), a classmethod: self is the class
schema(self, extended, extra) ==
  IF extended = FALSE
  THEN getattr_explicit(TypeOfClass(self), SchemaVal(EmptyDict))
  ELSE Schema(SchemaLoop(Reversed(getmro(self)), 1, EmptyDict), extra)

\* Calling a vol.Schema on a config dict: the normalized dict, or Invalid
Validate(s, cfg) ==
  LET wrongType == {f \in (DOMAIN cfg) \cap (DOMAIN s.schema) :
                      TypeOf(cfg[f]) # s.schema[f].typ}
      missing == {f \in (DOMAIN s.schema) \ (DOMAIN cfg) :
                    s.schema[f].kind = "Required" /\ s.schema[f].def = NoDefault}
      extraKeys == IF s.extra = "ALLOW_EXTRA" THEN {}
                   ELSE (DOMAIN cfg) \ (DOMAIN s.schema)
      defaults == {f \in (DOMAIN s.schema) \ (DOMAIN cfg) : s.schema[f].def # NoDefault}
  IN [ok |-> wrongType = {} /\ missing = {} /\ extraKeys = {},
      value |-> [f \in (DOMAIN cfg) \cup defaults |->
                   IF f \in DOMAIN cfg THEN cfg[f] ELSE s.schema[f].def]]

\* ------------------------------------------------------------- registry
\* the history record of a call
Call(op, loader, name, id, result) ==
  [op |-> op, loader |-> loader, name |-> name, id |-> id, result |-> result]

\* mutant: cls._registry.setdefault(name, cls), the first writer wins
Register_SetDefault(reg, c) ==
  IF RegistryName(c) \in DOMAIN reg THEN reg ELSE Put(reg, RegistryName(c), c)

\* cls._registry[name] = cls
Register(reg, c) == Put(reg, RegistryName(c), c)

\* BaseRegistry.__init_subclass__(cls): the class statement of c runs (for
\* the first time, or again when its module is executed again).  The
\* category base already carries _registry, so no new dict is made.
InitSubclass(c) ==
  /\ c \in Classes \ {CategoryBase}
  /\ Parent(c) \in defined
  /\ defined' = defined \cup {c}
  /\ registry' = Register(registry, c)
  /\ last' = Call("register", "-", c, NoId, "ok")
  /\ UNCHANGED <<CONFIG_SCHEMA, loaders, objects, object_id, destroyed, autoIds,
                 stored>>
  /\ UNCHANGED runtimeVars

\* del cls._registry[name]
Unregister(reg, c) == Del(reg, RegistryName(c))

\* mutant: cls._registry.pop(name, None), which never raises
NoRegistration_Pop(c) ==
  /\ c \in defined
  /\ registry' = Unregister(registry, c)
  /\ last' = Call("exclude", "-", c, NoId, "ok")
  /\ UNCHANGED <<CONFIG_SCHEMA, defined, loaders, objects, object_id,
                 destroyed, autoIds, stored>>
  /\ UNCHANGED runtimeVars

\* mutant: excluding a class also drops the live objects of that class
NoRegistration_DropObjects(c) ==
  /\ c \in defined
  /\ IF RegistryName(c) \in DOMAIN registry
     THEN /\ registry' = Unregister(registry, c)
          /\ last' = Call("exclude", "-", c, NoId, "ok")
     ELSE /\ registry' = registry
          /\ last' = Call("exclude", "-", c, NoId, "KeyError")
  /\ objects' = [l \in loaders |->
                   [id \in {i \in DOMAIN objects[l] : objects[l][i].cls # c}
                      |-> objects[l][id]]]
  /\ stored' = [l \in loaders |->
                  [id \in {i \in DOMAIN objects[l] : objects[l][i].cls # c}
                     |-> stored[l][id]]]
  /\ UNCHANGED <<CONFIG_SCHEMA, defined, loaders, object_id, destroyed, autoIds>>
  /\ UNCHANGED runtimeVars

\* BaseRegistry.no_registration(cls): del raises KeyError for a missing name
NoRegistration(c) ==
  /\ c \in defined
  /\ IF RegistryName(c) \in DOMAIN registry
     THEN /\ registry' = Unregister(registry, c)
          /\ last' = Call("exclude", "-", c, NoId, "ok")
     ELSE /\ registry' = registry
          /\ last' = Call("exclude", "-", c, NoId, "KeyError")
  /\ UNCHANGED <<CONFIG_SCHEMA, defined, loaders, objects, object_id,
                 destroyed, autoIds, stored>>
  /\ UNCHANGED runtimeVars

\* --------------------------------------------------------------- import
\* the interpreter state that importing touches
ImportState(def, reg, imp, raised) ==
  [defined |-> def, registry |-> reg, imported |-> imp, raised |-> raised]

\* a class statement of a module body runs: __init_subclass__
ClassStatement(st, c) ==
  [st EXCEPT !.defined = @ \cup {c}, !.registry = Register(@, c)]

RECURSIVE ExecBody(_, _, _)
ExecBody(st, body, i) ==
  IF i > Len(body) THEN st ELSE ExecBody(ClassStatement(st, body[i]), body, i + 1)

\* mutant: importing a module first empties the category's registry
ImportModule_ClearFirst(st, mod, fails, ranBody) ==
  IF mod \in st.imported THEN st
  ELSE LET ran == ExecBody([st EXCEPT !.registry = EmptyDict], ModuleBody(mod), 1)
       IN IF fails THEN [(IF ranBody THEN ran ELSE st) EXCEPT !.raised = TRUE]
          ELSE [ran EXCEPT !.imported = @ \cup {mod}]

\* importlib.import_module(name): a module in sys.modules is returned as it
\* is; otherwise its body runs.  A body that raises leaves the module out of
\* sys.modules, with the class statements it ran before raising (ranBody:
\* all of them, or none) in effect.
ImportModule(st, mod, fails, ranBody) ==
  IF mod \in st.imported THEN st
  ELSE LET ran == ExecBody(st, ModuleBody(mod), 1)
       IN IF fails THEN [(IF ranBody THEN ran ELSE st) EXCEPT !.raised = TRUE]
          ELSE [ran EXCEPT !.imported = @ \cup {mod}]

\* mutant: each import is guarded, the loop goes on after a failure
RECURSIVE ImportLoop_Isolated(_, _, _, _, _)
ImportLoop_Isolated(st, found, i, failAt, ranBody) ==
  IF i > Len(found) THEN st
  ELSE ImportLoop_Isolated(ImportModule(st, found[i], i = failAt, ranBody),
                           found, i + 1, failAt, ranBody)

\* for name in found: importlib.import_module(name)
RECURSIVE ImportLoop(_, _, _, _, _)
ImportLoop(st, found, i, failAt, ranBody) ==
  IF i > Len(found) \/ st.raised THEN st
  ELSE ImportLoop(ImportModule(st, found[i], i = failAt, ranBody),
                  found, i + 1, failAt, ranBody)

\* RegistryLoader.import_registry(package)
import_registry(found, failAt, ranBody) ==
  LET st == ImportState(defined, registry, imported, FALSE)
  IN IF failAt = DiscoveryFails THEN [st EXCEPT !.raised = TRUE]
     ELSE ImportLoop(st, found, 1, failAt, ranBody)

\* a failure can be placed in discovery, or in the import of a module found
\* that is not in sys.modules
CanFail(found, failAt) ==
  \/ failAt \in {NoFailure, DiscoveryFails}
  \/ failAt \in 1..Len(found) /\ found[failAt] \notin imported

\* --------------------------------------------------------------- loader
\* name not in self._cls.registry()
NameMissing(reg, name) == name \notin DOMAIN reg

\* id = self._object_id
AutoId(oid) == oid

\* mutant: the counter is not advanced
NextObjectId_Same(oid) == oid

\* self._object_id = self._object_id + 1
NextObjectId(oid) == oid + 1

\* mutant: the liveness check is skipped
IdInUse_Never(objs, id) == FALSE

\* id in self._objects
IdInUse(objs, id) == id \in DOMAIN objs

\* the constructor call: _cls(config, *args) or _cls(*args); the object is
\* the class, the arguments it was built from and its identity
Construct(cls, args, serial) == [cls |-> cls, args |-> args, serial |-> serial]

\* The identity of a newly constructed object: it differs from that of
\* every object alive in a loader (the least number none of them carries).
Fresh ==
  LET used == UNION {{objects[l][i].serial : i \in DOMAIN objects[l]} : l \in loaders}
  IN CHOOSE n \in 1..(Cardinality(used) + 1) :
       n \notin used /\ \A m \in 1..(n - 1) : m \in used

\* self._objects[id] = obj
Store(objs, id, obj) == Put(objs, id, obj)

\* mutant: the constructor is handed the config as the caller passed it
CtorArgs_RawConfig(config, validated, args) ==
  IF config.isNone THEN args ELSE <<config.value>> \o args

\* the arguments of the constructor call: _cls(config, *args) with the
\* validated config, or _cls(*args) when config is None
CtorArgs(config, validated, args) ==
  IF config.isNone THEN args ELSE <<validated>> \o args

\* no object: the call raised
NoObject == [cls |-> "-", args |-> <<>>, serial |-> 0]

\* The result of a create call: the exception or "ok", the loader's fields
\* after it, the id it resolved and the object it returned
Outcome(result, objs, oid, rid, ret) ==
  [result |-> result, objects |-> objs, object_id |-> oid, rid |-> rid, ret |-> ret]

\* mutant: the id is resolved (and the counter advanced) before the name
\* is looked up
create_NameCheckedLate(objs, oid, name, config, id, args, ctorOk, serial) ==
  LET rid == IF id = NoId THEN AutoId(oid) ELSE id
      oid2 == IF id = NoId THEN NextObjectId(oid) ELSE oid
  IN IF NameMissing(registry, name) THEN Outcome("NotFound", objs, oid2, rid, NoObject)
     ELSE
       LET cls == registry[name]
           validated == Validate(schema(cls, TRUE, "ALLOW_EXTRA"), config.value)
           ctorArgs == CtorArgs(config, validated.value, args)
           obj == Construct(cls, ctorArgs, serial)
       IN IF IdInUse(objs, rid) THEN Outcome("Conflict", objs, oid2, rid, NoObject)
          ELSE IF ~config.isNone /\ ~validated.ok
          THEN Outcome("Invalid", objs, oid2, rid, NoObject)
          ELSE IF ~ctorOk THEN Outcome("CtorError", objs, oid2, rid, NoObject)
          ELSE Outcome("ok", Store(objs, rid, obj), oid2, rid, obj)

\* mutant: the id is entered into _objects before the config is validated
\* and the object constructed
create_StoreFirst(objs, oid, name, config, id, args, ctorOk, serial) ==
  IF NameMissing(registry, name)
  THEN Outcome("NotFound", objs, oid, id, NoObject)
  ELSE
    LET rid == IF id = NoId THEN AutoId(oid) ELSE id
        oid2 == IF id = NoId THEN NextObjectId(oid) ELSE oid
        cls == registry[name]
        validated == Validate(schema(cls, TRUE, "ALLOW_EXTRA"), config.value)
        ctorArgs == CtorArgs(config, validated.value, args)
        obj == Construct(cls, ctorArgs, serial)
        early == Store(objs, rid, NoObject)
    IN IF IdInUse(objs, rid) THEN Outcome("Conflict", objs, oid2, rid, NoObject)
       ELSE IF ~config.isNone /\ ~validated.ok
       THEN Outcome("Invalid", early, oid2, rid, NoObject)
       ELSE IF ~ctorOk THEN Outcome("CtorError", early, oid2, rid, NoObject)
       ELSE Outcome("ok", Store(objs, rid, obj), oid2, rid, obj)

\* RegistryLoader.create(name, config, id, *args) on a loader whose _objects
\* is objs and whose _object_id is oid.  ctorOk: the constructor returns
\* (TRUE) or raises (FALSE); serial is the identity of the object it returns.
create(objs, oid, name, config, id, args, ctorOk, serial) ==
  IF NameMissing(registry, name)
  THEN Outcome("NotFound", objs, oid, id, NoObject)
  ELSE
    LET rid == IF id = NoId THEN AutoId(oid) ELSE id
        oid2 == IF id = NoId THEN NextObjectId(oid) ELSE oid
        cls == registry[name]
        validated == Validate(schema(cls, TRUE, "ALLOW_EXTRA"), config.value)
        ctorArgs == CtorArgs(config, validated.value, args)
        obj == Construct(cls, ctorArgs, serial)
    IN IF IdInUse(objs, rid) THEN Outcome("Conflict", objs, oid2, rid, NoObject)
       ELSE IF ~config.isNone /\ ~validated.ok
       THEN Outcome("Invalid", objs, oid2, rid, NoObject)
       ELSE IF ~ctorOk THEN Outcome("CtorError", objs, oid2, rid, NoObject)
       ELSE Outcome("ok", Store(objs, rid, obj), oid2, rid, obj)

\* mutant: _objects and _object_id are attributes of the class, one dict and
\* one counter for all loaders
Create_SharedState(l, name, config, id, args, ctorOk) ==
  LET out == create(objects[l], object_id[l], name, config, id, args, ctorOk, Fresh)
  IN /\ id = NoId => object_id[l] <= MaxObjectId
     /\ stored' = IF out.result = "ok"
                  THEN [k \in loaders |-> Put(stored[l], out.rid, [obj |-> out.ret, id |-> id])]
                  ELSE stored
     /\ objects' = [k \in loaders |-> out.objects]
     /\ object_id' = [k \in loaders |-> out.object_id]
     /\ autoIds' = IF id = NoId /\ out.result # "NotFound"
                   THEN [autoIds EXCEPT ![l] = Append(@, out.rid)]
                   ELSE autoIds
     /\ last' = Call("create", l, name, id, out.result)
     /\ UNCHANGED <<CONFIG_SCHEMA, defined, registry, loaders, destroyed>>
     /\ UNCHANGED runtimeVars

\* the call of create on loader l
Create(l, name, config, id, args, ctorOk) ==
  LET out == create(objects[l], object_id[l], name, config, id, args, ctorOk, Fresh)
  IN /\ id = NoId => object_id[l] <= MaxObjectId
     /\ stored' = IF out.result = "ok"
                  THEN [stored EXCEPT ![l] = Put(@, out.rid, [obj |-> out.ret, id |-> id])]
                  ELSE stored
     /\ objects' = [objects EXCEPT ![l] = out.objects]
     /\ object_id' = [object_id EXCEPT ![l] = out.object_id]
     /\ autoIds' = IF id = NoId /\ out.result # "NotFound"
                   THEN [autoIds EXCEPT ![l] = Append(@, out.rid)]
                   ELSE autoIds
     /\ last' = Call("create", l, name, id, out.result)
     /\ UNCHANGED <<CONFIG_SCHEMA, defined, registry, loaders, destroyed>>
     /\ UNCHANGED runtimeVars

\* mutant: self._objects.clear()
Remove_Clear(objs, id) == EmptyDict

\* del self._objects[id]
Remove(objs, id) == Del(objs, id)

\* mutant: self._objects.pop(id, None), which never raises
Destroy_Pop(l, id) ==
  /\ objects' = [objects EXCEPT ![l] = Remove(@, id)]
  /\ destroyed' = [destroyed EXCEPT ![l] = @ \cup {id}]
  /\ stored' = [stored EXCEPT ![l] = Del(@, id)]
  /\ last' = Call("destroy", l, "-", id, "ok")
  /\ UNCHANGED <<CONFIG_SCHEMA, defined, registry, loaders, object_id, autoIds>>
  /\ UNCHANGED runtimeVars

\* RegistryLoader.destroy(id)
Destroy(l, id) ==
  /\ IF ~IdInUse(objects[l], id)
     THEN /\ objects' = objects
          /\ destroyed' = destroyed
          /\ stored' = stored
          /\ last' = Call("destroy", l, "-", id, "NotFound")
     ELSE /\ objects' = [objects EXCEPT ![l] = Remove(@, id)]
          /\ destroyed' = [destroyed EXCEPT ![l] = @ \cup {id}]
          /\ stored' = [stored EXCEPT ![l] = Del(@, id)]
          /\ last' = Call("destroy", l, "-", id, "ok")
  /\ UNCHANGED <<CONFIG_SCHEMA, defined, registry, loaders, object_id, autoIds>>
  /\ UNCHANGED runtimeVars

\* ------------------------------------------------- create, step by step
\* A thread inside create(name, None) without an id: the statement it is at
\* (pc), its locals (name, id, obj), the counter value it has loaded for
\* the increment (tmp), and how its last call ended (result).
ThreadState(pc, name, id, tmp, obj, result) ==
  [pc |-> pc, name |-> name, id |-> id, tmp |-> tmp, obj |-> obj, result |-> result]

Idle == ThreadState("idle", "-", NoId, NoId, NoObject, "-")

At(t, pc) == threads[t].pc = pc

Goto(t, pc) == threads' = [threads EXCEPT ![t].pc = pc]

\* an identity no object in a mapping or in a thread's hands has
FreshSerial ==
  LET used == UNION {{objects[l][i].serial : i \in DOMAIN objects[l]} : l \in loaders}
                \cup {threads[t].obj.serial : t \in Threads}
  IN CHOOSE n \in 1..(Cardinality(used) + 1) : n \notin used

\* the call returns or raises: the caller's mutex, if any, is released
Finish(t, result, obj) ==
  /\ threads' = [threads EXCEPT ![t] =
                   ThreadState("done", @.name, @.id, NoId, obj, result)]
  /\ lock' = IF lock = "unused" THEN "unused" ELSE "free"
  /\ last' = Call("create", SharedLoader, threads[t].name, NoId, result)

\* mutant: the caller takes the mutex without waiting for it
CallCreate_NoWait(t, name) ==
  /\ threads[t].pc \in {"idle", "done"}
  /\ object_id[SharedLoader] <= MaxObjectId
  /\ lock' = IF lock = "unused" THEN "unused" ELSE t
  /\ threads' = [threads EXCEPT ![t] =
                   ThreadState("name_check", name, NoId, NoId, NoObject, "-")]
  /\ UNCHANGED <<CONFIG_SCHEMA, defined, registry, loaders, objects, object_id,
                 destroyed, autoIds, stored, imported, last>>
  /\ UNCHANGED asyncVars

\* a thread calls create(name, None), inside the callers' mutex if they
\* have one
CallCreate(t, name) ==
  /\ threads[t].pc \in {"idle", "done"}
  /\ object_id[SharedLoader] <= MaxObjectId
  /\ lock \in {"unused", "free"}
  /\ lock' = IF lock = "unused" THEN "unused" ELSE t
  /\ threads' = [threads EXCEPT ![t] =
                   ThreadState("name_check", name, NoId, NoId, NoObject, "-")]
  /\ UNCHANGED <<CONFIG_SCHEMA, defined, registry, loaders, objects, object_id,
                 destroyed, autoIds, stored, imported, last>>
  /\ UNCHANGED asyncVars

\* if name not in self._cls.registry(): raise
CheckName(t) ==
  /\ At(t, "name_check")
  /\ IF NameMissing(registry, threads[t].name)
     THEN Finish(t, "NotFound", NoObject)
     ELSE Goto(t, "read_id") /\ UNCHANGED <<lock, last>>
  /\ UNCHANGED <<CONFIG_SCHEMA, defined, registry, loaders, objects, object_id,
                 destroyed, autoIds, stored, imported>>
  /\ UNCHANGED asyncVars

\* id = self._object_id
ReadId(t) ==
  /\ At(t, "read_id")
  /\ threads' = [threads EXCEPT ![t].pc = "load_counter",
                                ![t].id = AutoId(object_id[SharedLoader])]
  /\ autoIds' = [autoIds EXCEPT ![SharedLoader] =
                   Append(@, AutoId(object_id[SharedLoader]))]
  /\ UNCHANGED <<CONFIG_SCHEMA, defined, registry, loaders, objects, object_id,
                 destroyed, stored, imported, lock, last>>
  /\ UNCHANGED asyncVars

\* self._object_id = self._object_id + 1: the attribute is loaded ...
LoadCounter(t) ==
  /\ At(t, "load_counter")
  /\ threads' = [threads EXCEPT ![t].pc = "store_counter",
                                ![t].tmp = object_id[SharedLoader]]
  /\ UNCHANGED <<CONFIG_SCHEMA, defined, registry, loaders, objects, object_id,
                 destroyed, autoIds, stored, imported, lock, last>>
  /\ UNCHANGED asyncVars

\* ... and the sum is stored
StoreCounter(t) ==
  /\ At(t, "store_counter")
  /\ object_id' = [object_id EXCEPT ![SharedLoader] = NextObjectId(threads[t].tmp)]
  /\ Goto(t, "check_id")
  /\ UNCHANGED <<CONFIG_SCHEMA, defined, registry, loaders, objects,
                 destroyed, autoIds, stored, imported, lock, last>>
  /\ UNCHANGED asyncVars

\* if id in self._objects: raise
CheckId(t) ==
  /\ At(t, "check_id")
  /\ IF IdInUse(objects[SharedLoader], threads[t].id)
     THEN Finish(t, "Conflict", NoObject)
     ELSE Goto(t, "construct") /\ UNCHANGED <<lock, last>>
  /\ UNCHANGED <<CONFIG_SCHEMA, defined, registry, loaders, objects, object_id,
                 destroyed, autoIds, stored, imported>>
  /\ UNCHANGED asyncVars

\* _cls = self._cls.registry().get(name); obj = _cls(*args)
ConstructObject(t) ==
  /\ At(t, "construct")
  /\ threads' = [threads EXCEPT
                   ![t].pc = "store",
                   ![t].obj = Construct(registry[threads[t].name],
                                        CtorArgs(NoConfig, EmptyDict, NoExtraArgs),
                                        FreshSerial)]
  /\ UNCHANGED <<CONFIG_SCHEMA, defined, registry, loaders, objects, object_id,
                 destroyed, autoIds, stored, imported, lock, last>>
  /\ UNCHANGED asyncVars

\* self._objects[id] = obj; return obj
StoreAndReturn(t) ==
  /\ At(t, "store")
  /\ objects' = [objects EXCEPT ![SharedLoader] =
                   Store(@, threads[t].id, threads[t].obj)]
  /\ stored' = [stored EXCEPT ![SharedLoader] =
                  Put(@, threads[t].id, [obj |-> threads[t].obj, id |-> NoId])]
  /\ Finish(t, "ok", threads[t].obj)
  /\ UNCHANGED <<CONFIG_SCHEMA, defined, registry, loaders, object_id,
                 destroyed, autoIds, imported>>
  /\ UNCHANGED asyncVars

\* ------------------------------------------------------- async_callback
\* What a callback does when the loop calls it: return a value, raise an
\* exception derived from Exception, or raise one derived only from
\* BaseException (KeyboardInterrupt, SystemExit).
Callback(kind, value) == [kind |-> kind, value |-> value]
Callbacks ==
  {Callback("returns", "value"), Callback("raises", "ValueError"),
   Callback("raises_base", "KeyboardInterrupt")}

\* concurrent.futures.Future: its state and result or exception, with the
\* callback it belongs to, whether the loop has called that callback, and
\* how many times set_result or set_exception completed it
Future(state, outcome, value, callback, ran, completions) ==
  [state |-> state, outcome |-> outcome, value |-> value, callback |-> callback,
   ran |-> ran, completions |-> completions]

\* no handle is being run
NoHandle == 0

LoopState(queue, running, pc) == [queue |-> queue, running |-> running, pc |-> pc]

InitAsync == future = <<>> /\ loop = LoopState(<<>>, NoHandle, "idle")

syncVars == <<CONFIG_SCHEMA, defined, registry, loaders, objects, object_id,
              destroyed, autoIds, stored, imported, threads, lock, last>>

\* async_callback(loop, callback, *args), on the calling thread: a pending
\* future is made, run_callback is scheduled, the future is returned
async_callback(callback) ==
  /\ Len(future) < MaxCalls
  /\ future' = Append(future, Future("PENDING", "-", "-", callback, FALSE, 0))
  /\ loop' = [loop EXCEPT !.queue = Append(@, Len(future) + 1)]
  /\ UNCHANGED syncVars

\* future.cancel(), by the caller: it cancels a pending future
Cancel(f) ==
  /\ f \in DOMAIN future
  /\ future[f].state = "PENDING"
  /\ future' = [future EXCEPT ![f].state = "CANCELLED"]
  /\ UNCHANGED loop
  /\ UNCHANGED syncVars

\* the loop takes the next handle and calls callback(*args); an exception
\* not derived from Exception passes through run_callback into the loop
CallCallback ==
  /\ loop.pc = "idle" /\ loop.queue # <<>>
  /\ LET f == Head(loop.queue)
         kind == future[f].callback.kind
     IN /\ future' = [future EXCEPT ![f].ran = TRUE]
        /\ loop' = IF kind = "returns" THEN LoopState(Tail(loop.queue), f, "set_result")
                   ELSE IF kind = "raises" THEN LoopState(Tail(loop.queue), f, "except")
                   ELSE LoopState(Tail(loop.queue), NoHandle, "idle")
  /\ UNCHANGED syncVars

\* future.set_result(...): InvalidStateError, an Exception, if the future is
\* cancelled or finished
SetResult ==
  /\ loop.pc = "set_result"
  /\ LET f == loop.running
     IN IF future[f].state \in {"PENDING", "RUNNING"}
        THEN /\ future' = [future EXCEPT
                             ![f].state = "FINISHED", ![f].outcome = "result",
                             ![f].value = future[f].callback.value,
                             ![f].completions = @ + 1]
             /\ loop' = LoopState(loop.queue, NoHandle, "idle")
        ELSE /\ future' = future
             /\ loop' = LoopState(loop.queue, f, "except")
  /\ UNCHANGED syncVars

\* mutant: the exception is logged and the future left as it is
SetRunningOrNotifyCancel_Lost ==
  /\ loop.pc = "except"
  /\ future' = future
  /\ loop' = LoopState(loop.queue, NoHandle, "idle")
  /\ UNCHANGED syncVars

\* except Exception: if future.set_running_or_notify_cancel(): a pending
\* future starts running (True), a cancelled one is notified (False, the
\* warning is logged), any other state raises RuntimeError into the loop
SetRunningOrNotifyCancel ==
  /\ loop.pc = "except"
  /\ LET f == loop.running
     IN IF future[f].state = "PENDING"
        THEN /\ future' = [future EXCEPT ![f].state = "RUNNING"]
             /\ loop' = LoopState(loop.queue, f, "set_exception")
        ELSE IF future[f].state = "CANCELLED"
        THEN /\ future' = [future EXCEPT ![f].state = "CANCELLED_AND_NOTIFIED"]
             /\ loop' = LoopState(loop.queue, NoHandle, "idle")
        ELSE /\ future' = future
             /\ loop' = LoopState(loop.queue, NoHandle, "idle")
  /\ UNCHANGED syncVars

\* future.set_exception(e)
SetException ==
  /\ loop.pc = "set_exception"
  /\ LET f == loop.running
     IN future' = [future EXCEPT
                     ![f].state = "FINISHED", ![f].outcome = "exception",
                     ![f].value = future[f].callback.value,
                     ![f].completions = @ + 1]
  /\ loop' = LoopState(loop.queue, NoHandle, "idle")
  /\ UNCHANGED syncVars

\* the steps of the event loop's thread
LoopStep == CallCallback \/ SetResult \/ SetRunningOrNotifyCancel \/ SetException

\* RegistryLoader(cls, package, ledfx): the loader exists only if the
\* constructor returns
NewLoader(l, found, failAt, ranBody) ==
  LET st == import_registry(found, failAt, ranBody)
      grow(f, v) == [k \in loaders \cup {l} |-> IF k = l THEN v ELSE f[k]]
  IN /\ l \notin loaders
     /\ CanFail(found, failAt)
     /\ defined' = st.defined
     /\ registry' = st.registry
     /\ imported' = st.imported
     /\ IF st.raised
        THEN /\ UNCHANGED <<loaders, objects, object_id, destroyed, autoIds, stored>>
             /\ last' = Call("new", l, "-", NoId, "ImportError")
        ELSE /\ loaders' = loaders \cup {l}
             /\ objects' = grow(objects, EmptyDict)
             /\ object_id' = grow(object_id, 1)
             /\ destroyed' = grow(destroyed, {})
             /\ autoIds' = grow(autoIds, <<>>)
             /\ stored' = grow(stored, EmptyDict)
             /\ last' = Call("new", l, "-", NoId, "ok")
     /\ UNCHANGED <<CONFIG_SCHEMA, threads, lock>>
     /\ UNCHANGED asyncVars

\* RegistryLoader.reload()
Reload(l, found, failAt, ranBody) ==
  LET st == import_registry(found, failAt, ranBody)
  IN /\ CanFail(found, failAt)
     /\ defined' = st.defined
     /\ registry' = st.registry
     /\ imported' = st.imported
     /\ last' = Call("reload", l, "-", NoId, IF st.raised THEN "ImportError" ELSE "ok")
     /\ UNCHANGED <<CONFIG_SCHEMA, loaders, objects, object_id, destroyed,
                    autoIds, stored, threads, lock>>
     /\ UNCHANGED asyncVars

\* ------------------------------------------------------- specification
\* RegistryLoader.__init__: no objects, the counter at 1
InitLoaders(ls) ==
  /\ loaders = ls
  /\ objects = [l \in ls |-> EmptyDict]
  /\ object_id = [l \in ls |-> 1]
  /\ destroyed = [l \in ls |-> {}]
  /\ autoIds = [l \in ls |-> <<>>]
  /\ stored = [l \in ls |-> EmptyDict]
  /\ last = Call("init", "-", "-", NoId, "ok")

\* the package of the loaders is imported; no thread is inside create
InitRuntime ==
  /\ imported = {PackageModules[i] : i \in 1..Len(PackageModules)}
  /\ threads = [t \in Threads |-> Idle]
  /\ lock = "unused"
  /\ InitAsync

\* The registry after the class statements (and no_registration decorators)
\* of an imported package have run: the classes defined, and the dict.
ImportedRegistries ==
  { [defined |-> {"Effect"},
     registry |-> Register(EmptyDict, "Effect")],
    [defined |-> {"Effect", "Rainbow"},
     registry |-> Register(Register(EmptyDict, "Effect"), "Rainbow")],
    [defined |-> {"Effect", "Rainbow"},
     registry |-> Unregister(Register(Register(EmptyDict, "Effect"), "Rainbow"), "Effect")],
    [defined |-> {"Effect", "Rainbow", "RainbowAlt"},
     registry |-> Register(Register(Register(EmptyDict, "Effect"), "Rainbow"), "RainbowAlt")] }

\* One RegistryLoader for the category, just constructed, its package
\* imported; afterwards the application creates and destroys objects.
Init ==
  /\ CONFIG_SCHEMA = AppDeclarations
  /\ \E r \in ImportedRegistries : defined = r.defined /\ registry = r.registry
  /\ InitLoaders({"L1"})
  /\ InitRuntime

Next ==
  \/ \E l \in loaders, name \in Names, config \in Configs,
        id \in ExplicitIds \cup {NoId}, ctorOk \in BOOLEAN :
       Create(l, name, config, id, NoExtraArgs, ctorOk)
  \/ \E l \in loaders, id \in AllIds : Destroy(l, id)

Spec == Init /\ [][Next]_vars

\* The same loader, its objects created without an id and with or without
\* extra positional arguments.
NextArgs ==
  \E l \in loaders, name \in Names, config \in Configs, args \in ExtraArgs,
     ctorOk \in BOOLEAN :
    Create(l, name, config, NoId, args, ctorOk)

SpecArgs == Init /\ [][NextArgs]_vars

\* Nothing but the category base is imported.  The application constructs
\* its loader (again, if the constructor raised), reloads it, and creates
\* and destroys objects; module files come and go between the calls and
\* imports may fail.
InitImport ==
  /\ CONFIG_SCHEMA = AppDeclarations
  /\ defined = {CategoryBase}
  /\ registry = Register(EmptyDict, CategoryBase)
  /\ InitLoaders({})
  /\ imported = {}
  /\ threads = [t \in Threads |-> Idle]
  /\ lock = "unused"
  /\ InitAsync

FailurePoints == NoFailure..Len(PackageModules)

NextImport ==
  \/ \E found \in FoundLists, failAt \in FailurePoints, ranBody \in BOOLEAN :
       NewLoader("L1", found, failAt, ranBody)
  \/ \E l \in loaders, found \in FoundLists, failAt \in FailurePoints,
        ranBody \in BOOLEAN :
       Reload(l, found, failAt, ranBody)
  \/ \E l \in loaders, name \in Names :
       Create(l, name, NoConfig, NoId, NoExtraArgs, TRUE)
  \/ \E l \in loaders, id \in AllIds : Destroy(l, id)

SpecImport == InitImport /\ [][NextImport]_vars

\* The category base class is defined and registered; class statements and
\* no_registration decorators run, in any order and any number of times.
InitRegistry ==
  /\ CONFIG_SCHEMA = AppDeclarations
  /\ defined = {CategoryBase}
  /\ registry = Register(EmptyDict, CategoryBase)
  /\ InitLoaders({"L1"})
  /\ InitRuntime

NextRegistry ==
  \/ \E c \in Classes : InitSubclass(c)
  \/ \E c \in Classes : NoRegistration(c)

SpecRegistry == InitRegistry /\ [][NextRegistry]_vars

\* A class hierarchy with any declarations the class bodies may make; the
\* application asks classes for their schema.
InitSchema ==
  /\ CONFIG_SCHEMA \in [Classes -> Declarations]
  /\ defined = {CategoryBase}
  /\ registry = Register(EmptyDict, CategoryBase)
  /\ InitLoaders({"L1"})
  /\ InitRuntime

\* Two loaders of the one category, constructed over the same package.
InitTwo ==
  /\ CONFIG_SCHEMA = AppDeclarations
  /\ \E r \in ImportedRegistries : defined = r.defined /\ registry = r.registry
  /\ InitLoaders(LoaderIds)
  /\ InitRuntime

NextTwo ==
  \/ \E l \in loaders, name \in Names :
       Create(l, name, NoConfig, NoId, NoExtraArgs, TRUE)
  \/ \E l \in loaders, id \in AllIds : Destroy(l, id)

SpecTwo == InitTwo /\ [][NextTwo]_vars

\* Two threads call create on one loader, statement by statement; the
\* application either puts a mutex around the calls or does not.
InitThreads ==
  /\ CONFIG_SCHEMA = AppDeclarations
  /\ defined = {"Effect", "Rainbow"}
  /\ registry = Register(Register(EmptyDict, "Effect"), "Rainbow")
  /\ InitLoaders({SharedLoader})
  /\ imported = {PackageModules[i] : i \in 1..Len(PackageModules)}
  /\ threads = [t \in Threads |-> Idle]
  /\ lock \in {"unused", "free"}
  /\ InitAsync

NextThreads ==
  \/ \E t \in Threads, name \in {"rainbow", "does_not_exist"} : CallCreate(t, name)
  \/ \E t \in Threads : CheckName(t)
  \/ \E t \in Threads : ReadId(t)
  \/ \E t \in Threads : LoadCounter(t)
  \/ \E t \in Threads : StoreCounter(t)
  \/ \E t \in Threads : CheckId(t)
  \/ \E t \in Threads : ConstructObject(t)
  \/ \E t \in Threads : StoreAndReturn(t)

SpecThreads == InitThreads /\ [][NextThreads]_vars

\* Threads of the application call async_callback and may cancel the
\* futures they got; the event loop runs every call scheduled on it.
NextAsync ==
  \/ \E callback \in Callbacks : async_callback(callback)
  \/ \E f \in 1..MaxCalls : Cancel(f)
  \/ CallCallback
  \/ SetResult
  \/ SetRunningOrNotifyCancel
  \/ SetException

SpecAsync == Init /\ [][NextAsync]_vars /\ WF_vars(LoopStep)

\* Class statements and no_registration decorators run while the loader
\* creates objects.
NextLive ==
  \/ \E c \in Classes : InitSubclass(c)
  \/ \E c \in Classes : NoRegistration(c)
  \/ \E l \in loaders, name \in Names :
       Create(l, name, NoConfig, NoId, NoExtraArgs, TRUE)

SpecLive == InitRegistry /\ [][NextLive]_vars

\* cls.schema(extended, extra)
SchemaCall(c, extended, extra) ==
  /\ last' = [op |-> "schema", name |-> c, extended |-> extended,
              extra |-> extra, ret |-> schema(c, extended, extra)]
  /\ UNCHANGED <<CONFIG_SCHEMA, defined, registry, loaders, objects,
                 object_id, destroyed, autoIds, stored>>
  /\ UNCHANGED runtimeVars

NextSchema ==
  \E c \in Classes, extended \in BOOLEAN, extra \in {"ALLOW_EXTRA", "PREVENT_EXTRA"} :
    SchemaCall(c, extended, extra)

SpecSchema == InitSchema /\ [][NextSchema]_vars

\* =================================================================== claims

\* C1: every create call that fails, whatever the cause and whether or not
\* an id was supplied, leaves the loader's id -> object mapping and its
\* next-auto-id counter exactly as they were before the call.
C1_FailedCreateChangesNothing ==
  [][(last'.op = "create" /\ last'.result # "ok")
       => (objects' = objects /\ object_id' = object_id)]_vars

\* C2: a create call with the id omitted never stores its object under an
\* identifier that was live and then destroyed.
C2_AutoIdNeverADestroyedId ==
  (last.op = "create" /\ last.id = NoId /\ last.result = "ok")
    => autoIds[last.loader][Len(autoIds[last.loader])] \notin destroyed[last.loader]

\* C3: the identifiers taken by id-less create calls start at 1 and strictly
\* increase over the whole history of the loader, whatever destroy calls and
\* explicit-id creates are interleaved; the counter stays above all of them
\* and moves only when an id is taken from it.
C3_AutoIdsStrictlyIncrease ==
  \A l \in loaders :
    /\ Len(autoIds[l]) >= 1 => autoIds[l][1] = 1
    /\ \A i, j \in 1..Len(autoIds[l]) : i < j => autoIds[l][i] < autoIds[l][j]
    /\ \A i \in 1..Len(autoIds[l]) : autoIds[l][i] < object_id[l]
    /\ object_id[l] = Len(autoIds[l]) + 1

\* C3 witness: two id-less creates with a destroy before the second one
C3_Witness ==
  /\ last.op = "create" /\ last.id = NoId /\ last.result = "ok"
  /\ Len(autoIds["L1"]) = 2
  /\ destroyed["L1"] # {}

\* C4: create with a registered name and an explicit id that has a live
\* object fails with the conflict error and leaves the mapping as it was:
\* the object stored under that id is not overwritten.
C4_ExplicitIdConflict ==
  [][(/\ last'.op = "create"
      /\ last'.id # NoId
      /\ last'.name \in DOMAIN registry
      /\ last'.id \in DOMAIN objects[last'.loader])
       => (last'.result = "Conflict" /\ objects' = objects)]_vars

\* C4 witness: an explicit-id create has just failed with the conflict error
C4_Witness ==
  /\ last.op = "create" /\ last.id # NoId /\ last.result = "Conflict"
  /\ last.id \in DOMAIN objects[last.loader]

\* C5: create with a name absent from the registry fails with the not-found
\* error for every config and id (an id that is live included) and changes
\* neither the mapping, nor the counter, nor the registry.
C5_UnknownNameChangesNothing ==
  [][(last'.op = "create" /\ last'.name \notin DOMAIN registry)
       => (/\ last'.result = "NotFound"
           /\ objects' = objects
           /\ object_id' = object_id
           /\ registry' = registry)]_vars

\* C5 witness: a create with an unknown name and a live id was refused
C5_Witness ==
  /\ last.op = "create" /\ last.result = "NotFound"
  /\ last.name \notin DOMAIN registry
  /\ last.id \in DOMAIN objects[last.loader]

\* C6: destroy of a live id removes exactly that entry: every other id keeps
\* its object, and the counter and the registry are unchanged.
C6_DestroyRemovesExactlyOne ==
  [][(last'.op = "destroy" /\ last'.id \in DOMAIN objects[last'.loader])
       => (/\ last'.result = "ok"
           /\ DOMAIN objects'[last'.loader] = (DOMAIN objects[last'.loader]) \ {last'.id}
           /\ \A k \in DOMAIN objects'[last'.loader] :
                objects'[last'.loader][k] = objects[last'.loader][k]
           /\ \A l \in loaders \ {last'.loader} : objects'[l] = objects[l]
           /\ object_id' = object_id
           /\ registry' = registry)]_vars

\* C6 witness: an id was destroyed and another object is still stored
C6_Witness ==
  /\ last.op = "destroy" /\ last.result = "ok"
  /\ last.id \notin DOMAIN objects[last.loader]
  /\ DOMAIN objects[last.loader] # {}

\* C7: destroy of an id with no live object (never created, or destroyed
\* before) fails with the not-found error and leaves the mapping and the
\* counter unchanged.
C7_DestroyUnknownId ==
  [][(last'.op = "destroy" /\ last'.id \notin DOMAIN objects[last'.loader])
       => (/\ last'.result = "NotFound"
           /\ objects' = objects
           /\ object_id' = object_id)]_vars

\* C7 witness: the second destroy of one id was refused
C7_Witness ==
  /\ last.op = "destroy" /\ last.result = "NotFound"
  /\ last.id \in destroyed[last.loader]

\* the registration name of each class: the last segment of its module
ExpectedName ==
  [c \in Classes |->
     CASE c = "Effect"     -> "effects"
       [] c = "Rainbow"    -> "rainbow"
       [] c = "RainbowAlt" -> "rainbow"
       [] c = "Gradient"   -> "gradient"]

\* C8: registration never fails and the last writer wins: after a class
\* statement the registry maps the class's name (the last segment of its
\* module) to that class, whatever it mapped the name to before, and the
\* entries under all other names are as before.
C8_LastWriterWins ==
  [][last'.op = "register"
       => (/\ last'.result = "ok"
           /\ DOMAIN registry' = (DOMAIN registry) \cup {ExpectedName[last'.name]}
           /\ registry'[ExpectedName[last'.name]] = last'.name
           /\ \A n \in (DOMAIN registry) \ {ExpectedName[last'.name]} :
                registry'[n] = registry[n])]_vars

\* C8 witness: RainbowAlt was registered over Rainbow, with another name kept
C8_Witness ==
  /\ last.op = "register" /\ last.name = "RainbowAlt"
  /\ "rainbow" \in DOMAIN registry /\ registry["rainbow"] = "RainbowAlt"
  /\ "gradient" \in DOMAIN registry

\* C9: no_registration removes the entry under the class's name and leaves
\* every other name as it was; with no entry under that name it fails with
\* a lookup error and the registry is unchanged; a later registration under
\* an excluded name makes the name present again.
C9_Exclude ==
  [][/\ last'.op = "exclude"
        => IF ExpectedName[last'.name] \in DOMAIN registry
           THEN /\ last'.result = "ok"
                /\ DOMAIN registry' = (DOMAIN registry) \ {ExpectedName[last'.name]}
                /\ \A n \in DOMAIN registry' : registry'[n] = registry[n]
           ELSE /\ last'.result = "KeyError"
                /\ registry' = registry
     /\ last'.op = "register" => ExpectedName[last'.name] \in DOMAIN registry']_vars

\* C9 witness: a second exclusion of one name failed, other names present
C9_Witness ==
  /\ last.op = "exclude" /\ last.result = "KeyError"
  /\ registry # EmptyDict

\* the nearest class, from c up its bases, whose own body declares field f
\* (a one-element sequence), or the empty sequence
RECURSIVE MostDerivedDeclaring(_, _)
MostDerivedDeclaring(c, f) ==
  IF c \notin Classes THEN <<>>
  ELSE IF CONFIG_SCHEMA[c] # <<>> /\ f \in DOMAIN CONFIG_SCHEMA[c][1].schema
  THEN <<c>>
  ELSE MostDerivedDeclaring(Parent(c), f)

Normalized(c, d) ==
  LET defaulted == {f \in Fields \ DOMAIN d :
                      /\ MostDerivedDeclaring(c, f) # <<>>
                      /\ CONFIG_SCHEMA[MostDerivedDeclaring(c, f)[1]][1].schema[f].def
                           # NoDefault}
  IN [f \in (DOMAIN d) \cup defaulted |->
        IF f \in DOMAIN d THEN d[f]
        ELSE CONFIG_SCHEMA[MostDerivedDeclaring(c, f)[1]][1].schema[f].def]

\* C11: schema(extended=False) returns the class's own declared schema
\* fragment when its body declares one, and the empty schema only when it
\* declares none.
C11_OwnSchema ==
  (last.op = "schema" /\ ~last.extended)
    => last.ret = (IF CONFIG_SCHEMA[last.name] # <<>>
                   THEN CONFIG_SCHEMA[last.name][1]
                   ELSE SchemaVal(EmptyDict))

C13_ReloadInvalidatesNothing ==
  [][last'.op = "reload"
       => /\ objects' = objects
          /\ object_id' = object_id
          /\ \A name \in DOMAIN registry : name \in DOMAIN registry']_vars

\* C13 witness: a reload, made while an object was live, has imported the
\* package's modules
C13_Witness ==
  /\ last.op = "reload" /\ last.result = "ok"
  /\ imported = {PackageModules[1], PackageModules[2]}
  /\ DOMAIN registry = {"effects", "gradient", "rainbow"}
  /\ 1 \in DOMAIN objects["L1"]
  /\ object_id["L1"] = 2

\* C14: when discovery fails, or the import of the k-th module found fails,
\* the constructor or reload raises; no module found after the k-th is
\* imported nor its classes registered by the call; every module found
\* before the k-th is imported and its classes stay registered.
C14_NotFailureIsolated ==
  [][\A l \in LoaderIds, found \in FoundLists, ranBody \in BOOLEAN,
        failAt \in FailurePoints \ {NoFailure} :
       (NewLoader(l, found, failAt, ranBody) \/ Reload(l, found, failAt, ranBody))
         => /\ last'.result = "ImportError"
            /\ loaders' = loaders
            /\ \A j \in 1..Len(found) :
                 /\ (j > failAt /\ found[j] \notin imported)
                      => /\ found[j] \notin imported'
                         /\ \A i \in 1..Len(ModuleBody(found[j])) :
                              LET c == ModuleBody(found[j])[i]
                              IN /\ c \notin defined => c \notin defined'
                                 /\ RegistryName(c) \notin DOMAIN registry
                                      => RegistryName(c) \notin DOMAIN registry'
                 /\ j < failAt
                      => /\ found[j] \in imported'
                         /\ \A i \in 1..Len(ModuleBody(found[j])) :
                              LET c == ModuleBody(found[j])[i]
                              IN /\ c \in defined'
                                 /\ RegistryName(c) \in DOMAIN registry'
                                 /\ registry'[RegistryName(c)] = c]_vars

\* C14 witness: the constructor raised at the second module; the first is
\* imported and registered, the second is not, and there is no loader
C14_Witness ==
  /\ last.op = "new" /\ last.result = "ImportError"
  /\ loaders = {}
  /\ imported = {PackageModules[1]}
  /\ DOMAIN registry = {"effects", "gradient"}

\* C16: in every state reached by creates and destroys of one thread, the
\* loader's mapping holds exactly the ids of the successful creates not
\* destroyed since, each mapped to the object that create returned; a create
\* that fails validation or construction stores nothing.
C16_MappingIsLiveCreates ==
  /\ [](\A l \in loaders :
          /\ DOMAIN objects[l] = DOMAIN stored[l]
          /\ \A id \in DOMAIN objects[l] : objects[l][id] = stored[l][id].obj)
  /\ [][(last'.op = "create" /\ last'.result \in {"Invalid", "CtorError"})
          => objects' = objects]_vars

\* C16 witness: one object created and destroyed, another live, and a create
\* just failed validation
C16_Witness ==
  /\ last.op = "create" /\ last.result = "Invalid"
  /\ destroyed["L1"] = {1}
  /\ DOMAIN objects["L1"] = {2}
  /\ stored["L1"][2].obj = objects["L1"][2]

\* the configs the composed schema of the class registered under name accepts
AcceptedConfigs(name) ==
  {config \in Configs :
     config.isNone
       \/ Validate(schema(registry[name], TRUE, "ALLOW_EXTRA"), config.value).ok}

\* the number of id-less creates made, one after the other, until one
\* succeeds; n counts the one being made, and more than fuel are not tried
RECURSIVE Attempts(_, _, _, _, _, _)
Attempts(objs, oid, name, config, n, fuel) ==
  IF n > fuel THEN n
  ELSE LET out == create(objs, oid, name, config, NoId, NoExtraArgs, TRUE, 0)
       IN IF out.result = "ok" THEN n
          ELSE Attempts(out.objects, out.object_id, name, config, n + 1, fuel)

\* C19: an id-less create fails with the conflict error only when the
\* counter's value is the id of a live object that was created with an
\* explicit id; and from every state, repeating an id-less create with a
\* registered name and an accepted config succeeds within (number of live
\* objects + 1) attempts.
C19_ConflictOnlyOnExplicitIdAndRetrySucceeds ==
  /\ [][(last'.op = "create" /\ last'.id = NoId /\ last'.result = "Conflict")
          => LET l == last'.loader
             IN /\ object_id[l] \in DOMAIN objects[l]
                /\ stored[l][object_id[l]].id # NoId]_vars
  /\ [](\A l \in loaders, name \in DOMAIN registry :
          \A config \in AcceptedConfigs(name) :
            LET live == Cardinality(DOMAIN objects[l])
            IN Attempts(objects[l], object_id[l], name, config, 1, live + 1)
                 <= live + 1)

\* C19 witness: ids 1 and 2 are held by objects created with explicit ids and
\* two id-less creates have failed on them, leaving the counter at 3
C19_Witness ==
  /\ last.op = "create" /\ last.id = NoId /\ last.result = "Conflict"
  /\ DOMAIN objects["L1"] = {1, 2}
  /\ stored["L1"][1].id = 1 /\ stored["L1"][2].id = 2
  /\ object_id["L1"] = 3

\* C17: create looks the name up in the registry as it is at the call: the
\* object is of the class registered under the name then, and the call
\* raises not-found exactly when the name is not registered then; a class
\* statement or an exclusion changes no loader's objects.
C17_TypeResolvedAtCall ==
  /\ [][last'.op = "create"
          => /\ (last'.result = "NotFound") = (last'.name \notin DOMAIN registry)
             /\ last'.result = "ok"
                  => LET l == last'.loader
                     IN objects'[l][object_id[l]].cls = registry[last'.name]]_vars
  /\ [][last'.op \in {"register", "exclude"} => objects' = objects]_vars

\* C17 witness: an object of Rainbow is live; RainbowAlt was registered
\* over it under the same name, and a create under that name then made a
\* RainbowAlt
C17_Witness ==
  /\ last.op = "create" /\ last.result = "ok" /\ last.name = "rainbow"
  /\ DOMAIN objects["L1"] = {1, 2}
  /\ objects["L1"][1].cls = "Rainbow"
  /\ objects["L1"][2].cls = "RainbowAlt"
  /\ registry["rainbow"] = "RainbowAlt"

\* C18: two loaders of one category read the same registry, and each has
\* its own objects and id counter: a create or destroy on one loader leaves
\* the other loader's mapping and counter, and the registry, as they were,
\* and a name is found by one loader exactly when it is found by the other.
C18_SharedRegistryOwnObjects ==
  [][last'.op \in {"create", "destroy"}
       => /\ registry' = registry
          /\ \A k \in loaders \ {last'.loader} :
               objects'[k] = objects[k] /\ object_id'[k] = object_id[k]
          /\ last'.op = "create"
               => (last'.result = "NotFound") = (last'.name \notin DOMAIN registry)]_vars

\* C18 witness: both loaders hold id 1, each its own object of the same
\* registered class, and one of them has moved on to id 2
C18_Witness ==
  /\ 1 \in DOMAIN objects["L1"] /\ 1 \in DOMAIN objects["L2"]
  /\ objects["L1"][1].cls = objects["L2"][1].cls
  /\ objects["L1"][1].serial # objects["L2"][1].serial
  /\ object_id["L1"] = 3 /\ object_id["L2"] = 2
  /\ last.op = "destroy" /\ last.loader = "L1" /\ last.result = "ok"

\* two calls of create have both returned an object for one and the same
\* id, and the mapping holds one of the two objects under it
DuplicateId ==
  \E t \in Threads : \E u \in Threads \ {t} :
    /\ threads[t].pc = "done" /\ threads[t].result = "ok"
    /\ threads[u].pc = "done" /\ threads[u].result = "ok"
    /\ threads[t].id = threads[u].id
    /\ threads[t].obj # threads[u].obj
    /\ threads[t].id \in DOMAIN objects[SharedLoader]
    /\ objects[SharedLoader][threads[t].id] = threads[u].obj

\* C15: two id-less creates running in two threads can both return an
\* object for the same id, of which the mapping keeps one; when the callers
\* hold a mutex around create this does not happen.
C15_DuplicateIdOnlyWithoutMutex == DuplicateId => lock = "unused"

\* C15 witness: without a mutex both threads have returned an object for
\* id 1 and the mapping holds only the second
C15_Witness ==
  /\ DuplicateId
  /\ lock = "unused"
  /\ threads["T1"].id = 1
  /\ DOMAIN objects[SharedLoader] = {1}

\* the loop has called the callback of future f and is through with its
\* run_callback, and the caller has not cancelled the future
RanUncancelled(f) ==
  /\ future[f].ran /\ loop.running # f
  /\ future[f].state \notin {"CANCELLED", "CANCELLED_AND_NOTIFIED"}

\* future f is completed, once, with what its callback returned or raised
CompletedWithOutcome(f) ==
  /\ future[f].state = "FINISHED"
  /\ future[f].completions = 1
  /\ future[f].value = future[f].callback.value
  /\ future[f].outcome = IF future[f].callback.kind = "returns" THEN "result"
                         ELSE "exception"

\* C20 as claimed: once the loop has run the scheduled call of an
\* uncancelled future, the future is completed exactly once, with the
\* return value if the callback returned and with the exception if it raised.
C20_CompletedWhateverIsRaised ==
  \A f \in DOMAIN future : RanUncancelled(f) => CompletedWithOutcome(f)

\* C20, amended: async_callback returns a pending future whose callback has
\* not run; it is not completed before the loop calls the callback and never
\* more than once; once the loop has run the call of an uncancelled future
\* it is completed with the return value, or with the raised exception if
\* that is an Exception, and left pending if the callback raised an exception
\* that is not an Exception; and the loop gets there.
C20_CompletedUnlessBaseException ==
  /\ [](\A f \in DOMAIN future :
          /\ ~future[f].ran => future[f].state \in {"PENDING", "CANCELLED"}
          /\ future[f].completions <= 1
          /\ future[f].state = "FINISHED" => future[f].completions = 1
          /\ RanUncancelled(f)
               => IF future[f].callback.kind = "raises_base"
                  THEN future[f].state = "PENDING"
                  ELSE CompletedWithOutcome(f))
  /\ \A f \in 1..MaxCalls :
       (f \in DOMAIN future /\ future[f].callback.kind # "raises_base")
         ~> (f \in DOMAIN future /\ future[f].state
               \in {"FINISHED", "CANCELLED", "CANCELLED_AND_NOTIFIED"})

\* C20 witness: the first future is completed with the exception its
\* callback raised, the second with the value its callback returned
C20_Witness ==
  /\ Len(future) = 2
  /\ future[1].callback.kind = "raises" /\ future[1].state = "FINISHED"
  /\ future[1].outcome = "exception" /\ future[1].value = "ValueError"
  /\ future[2].callback.kind = "returns" /\ future[2].state = "FINISHED"
  /\ future[2].outcome = "result" /\ future[2].value = "value"

====
